---- MODULE Spec2Model ----
(***************************************************************************)
(* vibetools: reconciliation of named entries between the git-backed repo  *)
(* and the agents' local directories.  The model covers the identity       *)
(* comparator (sync/hash.ts), the symlink helpers (sync/symlink.ts), the   *)
(* materializer (sync/fs.ts), the filter engine (sync/filters.ts) and the  *)
(* install and collect drivers with their conflict prompts.                *)
(***************************************************************************)
EXTENDS Integers, Sequences, FiniteSets, TLC

VARIABLES
    opts,       \* options of the command line merged with the config
    canSymlink, \* whether fs.symlink succeeds on this platform
    fs,         \* entry path -> node (missing / file / dir / symlink)
    dirs,       \* the root directories that exist
    backups,    \* entries copied under backups.dir
    run,        \* number of the current command run (its timestamp)
    status,     \* position of the driver
    exitCode,   \* exit code of the error that reached the command boundary
    error,      \* message of that error
    queue,      \* entries the driver has still to process, head first
    log,        \* per entry: what the current run observed and did
    prevLog,    \* the log of the previous run
    snap,       \* fs, dirs and backups as they were when the run started
    report,     \* the report of the last status command
    git         \* the git repository at repoPath and the git commands of the run

vars == <<opts, canSymlink, fs, dirs, backups, run, status, exitCode, error, queue, log,
          prevLog, snap, report, git>>

---------------------------------------------------------------------------
(* Bounds of the exploration *)

MaxRuns == 2
MaxDiffs == 1
MaxLinkDepth == 3

---------------------------------------------------------------------------
(* Configuration *)

AGENT_IDS == <<"codex", "claude-code", "opencode">>

VIBETOOLS_ARTIFACT_TYPES == <<"skills", "commands">>

EXIT_ABORT == 2

DEFAULT_EXIT_CODE == 1

NoDir == <<"", "">>

NoPath == <<"", "", "">>

\* config.agents[id].enabled
AgentEnabled(agentId) == agentId \in {"codex", "claude-code"}

\* agentTypeDir: the local root of an agent for a type, NoDir when null
agentTypeDir(agentId, type) ==
    IF agentId = "codex" THEN <<"codex", type>>
    ELSE IF agentId = "claude-code" /\ type = "skills"
         THEN <<"claude-code", "skills">>
         ELSE NoDir

\* repoTypeDir: <repo>/.agents/<type>
repoTypeDir(type) == <<"repo", type>>

\* config.agents[id].filters[type]
AgentFilters(agentId, type) ==
    IF agentId = "claude-code"
    THEN opts.filters
    ELSE [include |-> <<"**">>, exclude |-> << >>]

\* The marker of repoMetadataPath, kept among the directories
RepoMeta == <<"repo", "vibetools.repo.json">>

\* isAgentId and isArtifactType
isAgentId(value) == \E i \in 1..Len(AGENT_IDS) : AGENT_IDS[i] = value

isArtifactType(value) ==
    \E i \in 1..Len(VIBETOOLS_ARTIFACT_TYPES) : VIBETOOLS_ARTIFACT_TYPES[i] = value

\* parseAgentFilter and parseTypeFilter: the list that is returned; "" is the
\* absent option, and the empty list stands for the thrown error
parseAgentFilter(agent) ==
    IF agent = "" THEN AGENT_IDS
    ELSE IF isAgentId(agent) THEN <<agent>>
    ELSE << >>

parseTypeFilter(type) ==
    IF type = "" THEN VIBETOOLS_ARTIFACT_TYPES
    ELSE IF isArtifactType(type) THEN <<type>>
    ELSE << >>

\* ensureRepoLooksInitialized: both type directories, or the metadata file
ensureRepoLooksInitialized(d) ==
    LET hasDirs == repoTypeDir("skills") \in d /\ repoTypeDir("commands") \in d
        hasMetadata == RepoMeta \in d
    IN  hasDirs \/ hasMetadata

\* The entry names of the model, in localeCompare order
Names == <<"a", "b">>

NameSet == {Names[i] : i \in 1..Len(Names)}

TypeSet == {VIBETOOLS_ARTIFACT_TYPES[i] : i \in 1..Len(VIBETOOLS_ARTIFACT_TYPES)}

Owners == {"repo", "codex", "claude-code"}

\* Two paths outside every root: ExtX exists, ExtZ never does
ExtX == <<"ext", "-", "x">>

ExtZ == <<"ext", "-", "z">>

Paths == {<<o, t, n>> : o \in Owners, t \in TypeSet, n \in NameSet}
            \cup {ExtX, ExtZ}

join(dir, name) == <<dir[1], dir[2], name>>

dirname(p) == <<p[1], p[2]>>

---------------------------------------------------------------------------
(* Nodes of the file system *)

Missing == [kind |-> "missing", data |-> 0, target |-> NoPath]

File(d) == [kind |-> "file", data |-> d, target |-> NoPath]

Dir(d) == [kind |-> "dir", data |-> d, target |-> NoPath]

Link(t) == [kind |-> "symlink", data |-> 0, target |-> t]

pathExists(f, p) == f[p].kind # "missing"

isSymlink(f, p) == f[p].kind = "symlink"

\* fs.realpath: follows links; NoPath stands for the thrown error
\* (ENOENT on a dangling link, ELOOP on a chain that is too long)
RECURSIVE realpathN(_, _, _)
realpathN(f, p, k) ==
    IF p \notin DOMAIN f \/ f[p].kind = "missing" THEN NoPath
    ELSE IF f[p].kind = "symlink"
         THEN IF k = 0 THEN NoPath ELSE realpathN(f, f[p].target, k - 1)
         ELSE p

realpath(f, p) == realpathN(f, p, MaxLinkDepth)

sameRealpath(f, a, b) ==
    LET ra == realpath(f, a)
        rb == realpath(f, b)
    IN  IF ra = NoPath \/ rb = NoPath THEN FALSE ELSE ra = rb

---------------------------------------------------------------------------
(* Identity comparator (sync/hash.ts) *)

\* SHA-256 of a content, taken as collision free on the contents of the model
Sha(d) == 100 + d

hashEntry(f, p) ==
    IF f[p].kind = "missing" THEN [kind |-> "missing", sha256 |-> 0, target |-> NoPath]
    ELSE IF f[p].kind = "symlink"
         THEN [kind |-> "symlink", sha256 |-> 0, target |-> f[p].target]
         ELSE [kind |-> f[p].kind, sha256 |-> Sha(f[p].data), target |-> NoPath]

areHashesEqual(a, b) ==
    IF a.kind # b.kind THEN FALSE
    ELSE IF a.kind = "missing" THEN TRUE
    ELSE IF a.kind = "symlink" THEN a.target = b.target
    ELSE a.sha256 = b.sha256

---------------------------------------------------------------------------
(* Filter engine (sync/filters.ts) *)

\* picomatch with dot: true, on the globs of the model: "**" and literals
Matches(glob, name) == glob = "**" \/ glob = name

MatchesAny(globs, name) == \E i \in 1..Len(globs) : Matches(globs[i], name)

\* A variant that ignores the exclude globs
applyFilters_noExclude(entries, filters) ==
    LET include == IF Len(filters.include) > 0 THEN filters.include ELSE <<"**">>
    IN  SelectSeq(entries, LAMBDA n : MatchesAny(include, n))

applyFilters(entries, filters) ==
    LET include == IF Len(filters.include) > 0 THEN filters.include ELSE <<"**">>
        isIncluded(n) == MatchesAny(include, n)
        isExcluded(n) == IF Len(filters.exclude) > 0
                         THEN MatchesAny(filters.exclude, n)
                         ELSE FALSE
    IN  SelectSeq(entries, LAMBDA n : isIncluded(n) /\ ~isExcluded(n))

\* listTopLevelEntries: the sorted names present under a directory
listTopLevelEntries(f, d, dir) ==
    IF dir \notin d THEN << >>
    ELSE SelectSeq(Names, LAMBDA n : pathExists(f, join(dir, n)))

---------------------------------------------------------------------------
(* Entries and the per-entry log *)

\* An entry is keyed by <<agent or source label, type, name>>
EntryKeys == {<<l, t, n>> : l \in {"codex", "claude-code"}, t \in TypeSet, n \in NameSet}

LocalOf(k) == join(agentTypeDir(k[1], k[2]), k[3])

RepoOf(k) == join(repoTypeDir(k[2]), k[3])

EmptyLog ==
    [examined |-> FALSE, present |-> FALSE, linked |-> FALSE, equal |-> FALSE,
     canDiff |-> FALSE, prompted |-> FALSE, diffs |-> 0, answer |-> "",
     decision |-> "", fallbackPrompted |-> FALSE, steps |-> << >>,
     outcome |-> ""]

FreshLog == [k \in EntryKeys |-> EmptyLog]

\* The steps of a log that write to the file system
WriteSteps == {"mkdir", "backup", "remove", "copy", "symlink", "copyDeref"}

HasStep(l, s) == \E i \in 1..Len(l.steps) : l.steps[i] = s

Wrote(l) == \E i \in 1..Len(l.steps) : l.steps[i] \in WriteSteps

\* The mutable part of the world that one entry's processing transforms
World == [fs |-> fs, dirs |-> dirs, backups |-> backups, log |-> log]

Step(m, k, s) == [m EXCEPT !.log[k].steps = Append(@, s)]

Note(m, k, field, v) == [m EXCEPT !.log[k][field] = v]

\* What processing an entry leads to: the next entry, a prompt, or a throw
Ok(m) == [m |-> m, next |-> "next", code |-> 0, msg |-> ""]

Ask(m, which) == [m |-> m, next |-> which, code |-> 0, msg |-> ""]

Throw(m, code, msg) == [m |-> m, next |-> "throw", code |-> code, msg |-> msg]

---------------------------------------------------------------------------
(* Entry materializer (sync/fs.ts, sync/symlink.ts) *)

ensureDir(m, k, dir) ==
    IF dir \in m.dirs THEN m
    ELSE Step([m EXCEPT !.dirs = @ \cup {dir}], k, "mkdir")

removeEntry(m, k, p) ==
    IF pathExists(m.fs, p)
    THEN Step([m EXCEPT !.fs[p] = Missing], k, "remove")
    ELSE m

\* copyEntry: a symlink is re-created with the same target text, a file or
\* a directory is copied with its content
copyEntry(m, k, src, dest) ==
    LET m1 == ensureDir(m, k, dirname(dest))
        node == IF m.fs[src].kind = "symlink" THEN Link(m.fs[src].target)
                ELSE IF m.fs[src].kind = "dir" THEN Dir(m.fs[src].data)
                ELSE File(m.fs[src].data)
    IN  Step([m1 EXCEPT !.fs[dest] = node], k, "copy")

\* backupEntry: copyEntry into backups.dir/<timestamp>/<label>/<type>/<name>
backupEntry(m, k, srcExisting) ==
    LET node == IF m.fs[srcExisting].kind = "symlink" THEN Link(m.fs[srcExisting].target)
                ELSE IF m.fs[srcExisting].kind = "dir" THEN Dir(m.fs[srcExisting].data)
                ELSE File(m.fs[srcExisting].data)
        b == [run |-> run, key |-> k, node |-> node]
    IN  Step([m EXCEPT !.backups = @ \cup {b}], k, "backup")

\* A variant with the two paths exchanged
createSymlink_swapped(m, k, src, dest) ==
    Step([m EXCEPT !.fs[src] = Link(dest)], k, "symlink")

\* createSymlink: a link whose target text is the source path
createSymlink(m, k, src, dest) ==
    Step([m EXCEPT !.fs[dest] = Link(src)], k, "symlink")

\* copyEntryDereference fails when lstat or realpath of the source throws
derefFails(f, src) ==
    \/ ~pathExists(f, src)
    \/ isSymlink(f, src) /\ realpath(f, src) = NoPath

\* copyEntryDereference: the source is resolved before it is copied, so the
\* destination is a plain file or directory
copyEntryDereference(m, k, src, dest) ==
    LET m1 == ensureDir(m, k, dirname(dest))
        resolved == IF isSymlink(m.fs, src) THEN realpath(m.fs, src) ELSE src
        node == IF m.fs[resolved].kind = "dir" THEN Dir(m.fs[resolved].data)
                ELSE File(m.fs[resolved].data)
    IN  Step([m1 EXCEPT !.fs[dest] = node], k, "copyDeref")

---------------------------------------------------------------------------
(* Install (commands/install.ts) *)

\* A variant that compares the link text with the source path
isCorrectSymlink_byText(f, dest, src) == isSymlink(f, dest) /\ f[dest].target = src

isCorrectSymlink(f, dest, src) == isSymlink(f, dest) /\ sameRealpath(f, dest, src)

isIdenticalCopy(f, src, dest) ==
    IF isSymlink(f, dest) THEN FALSE
    ELSE areHashesEqual(hashEntry(f, src), hashEntry(f, dest))

\* canDiff of decideConflict and decideRepoConflict: both sides are files
bothFiles(f, a, b) == f[a].kind = "file" /\ f[b].kind = "file"

\* A variant that removes the destination without a backup
backupAndRemoveExisting_noBackup(m, k, dest) ==
    IF opts.dryRun THEN m ELSE removeEntry(m, k, dest)

backupAndRemoveExisting(m, k, dest) ==
    IF opts.dryRun THEN m
    ELSE removeEntry(IF opts.backupsEnabled THEN backupEntry(m, k, dest) ELSE m,
                     k, dest)

\* A variant in which a failed symlink is fatal under every fallback
installOne_fallbackError(m, k, src, dest, linkOk) ==
    LET m1 == ensureDir(m, k, dirname(dest))
    IN  IF opts.dryRun THEN Ok(Note(m1, k, "outcome", "would install"))
        ELSE IF opts.mode = "copy"
             THEN Ok(Note(copyEntry(m1, k, src, dest), k, "outcome", "installed"))
        ELSE IF linkOk
             THEN Ok(Note(createSymlink(m1, k, src, dest), k, "outcome", "installed"))
        ELSE Throw(Note(m1, k, "outcome", "error"), DEFAULT_EXIT_CODE, "symlink failed")

\* installOne; linkOk tells whether fs.symlink succeeded
installOne(m, k, src, dest, linkOk) ==
    LET m1 == ensureDir(m, k, dirname(dest))
    IN  IF opts.dryRun THEN Ok(Note(m1, k, "outcome", "would install"))
        ELSE IF opts.mode = "copy"
             THEN Ok(Note(copyEntry(m1, k, src, dest), k, "outcome", "installed"))
        ELSE IF linkOk
             THEN Ok(Note(createSymlink(m1, k, src, dest), k, "outcome", "installed"))
        ELSE IF opts.symlinkFallback = "error"
             THEN Throw(Note(m1, k, "outcome", "error"), DEFAULT_EXIT_CODE, "symlink failed")
        ELSE IF opts.symlinkFallback = "copy"
             THEN Ok(Note(copyEntry(m1, k, src, dest), k, "outcome", "installed"))
        ELSE Ask(Note(m1, k, "fallbackPrompted", TRUE), "fallback")

\* A variant in which an abort only skips the entry
installDecided_abortSkips(m, k, decision, linkOk) ==
    LET m1 == Note(m, k, "decision", decision)
    IN  IF decision \in {"skip", "abort"} THEN Ok(Note(m1, k, "outcome", "skipped"))
        ELSE installOne(backupAndRemoveExisting(m1, k, LocalOf(k)), k,
                        RepoOf(k), LocalOf(k), linkOk)

\* installEntry from the decision on: skip, abort, or backup, remove, install
installDecided(m, k, decision, linkOk) ==
    LET m1 == Note(m, k, "decision", decision)
    IN  IF decision = "skip" THEN Ok(Note(m1, k, "outcome", "skipped"))
        ELSE IF decision = "abort"
             THEN Throw(Note(m1, k, "outcome", "aborted"), EXIT_ABORT,
                        "Aborted due to unresolved conflicts.")
        ELSE installOne(backupAndRemoveExisting(m1, k, LocalOf(k)), k,
                        RepoOf(k), LocalOf(k), linkOk)

\* A variant with the two policies exchanged
decideReplacement_swapped ==
    IF opts.policy = "localWins" THEN "replace"
    ELSE IF opts.policy = "repoWins" THEN "skip"
    ELSE IF opts.force THEN "replace"
    ELSE "ask"

\* decideReplacement and decideConflict up to the prompt; "ask" stands for
\* the prompt being shown
decideReplacement ==
    IF opts.policy = "localWins" THEN "skip"
    ELSE IF opts.policy = "repoWins" THEN "replace"
    ELSE IF opts.force THEN "replace"
    ELSE "ask"

installEntry(m, k, linkOk) ==
    LET src == RepoOf(k)
        dest == LocalOf(k)
        f == m.fs
        m0 == [m EXCEPT !.log[k] =
                 [@ EXCEPT !.examined = TRUE,
                           !.present = pathExists(f, dest),
                           !.linked = isSymlink(f, dest) /\ sameRealpath(f, dest, src),
                           !.equal = areHashesEqual(hashEntry(f, src), hashEntry(f, dest)),
                           !.canDiff = bothFiles(f, src, dest)]]
    IN  IF pathExists(f, dest)
        THEN IF isCorrectSymlink(f, dest, src) THEN Ok(Note(m0, k, "outcome", "skipped"))
             ELSE IF isIdenticalCopy(f, src, dest) THEN Ok(Note(m0, k, "outcome", "skipped"))
             ELSE IF decideReplacement = "ask" THEN Ask(Note(m0, k, "prompted", TRUE), "prompt")
             ELSE installDecided(m0, k, decideReplacement, linkOk)
        ELSE installOne(m0, k, src, dest, linkOk)

\* The entries runInstall visits, in order: agents, then types, then the
\* filtered sorted names of the repo directory of the type
RECURSIVE Concat(_)
Concat(ss) == IF Len(ss) = 0 THEN << >> ELSE Head(ss) \o Concat(Tail(ss))

Keyed(label, type, names) == [i \in 1..Len(names) |-> <<label, type, names[i]>>]

installForAgentType(agentId, type) ==
    IF agentTypeDir(agentId, type) = NoDir THEN << >>
    ELSE Keyed(agentId, type,
               applyFilters(listTopLevelEntries(fs, dirs, repoTypeDir(type)),
                            AgentFilters(agentId, type)))

installForAgent(agentId) ==
    IF ~AgentEnabled(agentId) THEN << >>
    ELSE LET types == parseTypeFilter(opts.type)
         IN  Concat([i \in 1..Len(types) |-> installForAgentType(agentId, types[i])])

InstallQueue ==
    LET agents == parseAgentFilter(opts.agent)
    IN  Concat([i \in 1..Len(agents) |-> installForAgent(agents[i])])

---------------------------------------------------------------------------
(* Collect (commands/collect.ts) *)

isRepoPointingSymlink(f, local, repo) ==
    IF ~isSymlink(f, local) THEN FALSE ELSE sameRealpath(f, local, repo)

areEntriesEqual(f, repo, local) == areHashesEqual(hashEntry(f, repo), hashEntry(f, local))

maybeBackupAndRemoveRepo(m, k, repoPath) ==
    IF ~opts.backupsEnabled \/ opts.dryRun THEN m
    ELSE removeEntry(backupEntry(m, k, repoPath), k, repoPath)

\* collectEntry after the action is "proceed"
collectProceed(m, k) ==
    IF opts.dryRun THEN Ok(Note(m, k, "outcome", "would import"))
    ELSE IF derefFails(m.fs, LocalOf(k))
         THEN Throw(Note(ensureDir(m, k, dirname(RepoOf(k))), k, "outcome", "error"),
                    DEFAULT_EXIT_CODE, "copy failed")
         ELSE Ok(Note(copyEntryDereference(m, k, LocalOf(k), RepoOf(k)),
                      k, "outcome", "imported"))

\* A variant that removes the repo entry only together with its backup
overwriteRepo_noRemove(m, k) ==
    collectProceed(maybeBackupAndRemoveRepo(m, k, RepoOf(k)), k)

\* handleRepoExists after the decision not to skip
overwriteRepo(m, k) ==
    LET m1 == maybeBackupAndRemoveRepo(m, k, RepoOf(k))
        m2 == IF ~opts.dryRun /\ ~opts.backupsEnabled
              THEN removeEntry(m1, k, RepoOf(k))
              ELSE m1
    IN  collectProceed(m2, k)

\* The continuation of collectEntry once decideRepoConflict has returned
collectDecided(m, k, decision) ==
    LET m1 == Note(m, k, "decision", decision)
    IN  IF decision = "skip" THEN Ok(Note(m1, k, "outcome", "skipped"))
        ELSE IF m.log[k].present THEN overwriteRepo(m1, k)
        ELSE collectProceed(m1, k)

handleRepoExists(m, k) ==
    IF areEntriesEqual(m.fs, RepoOf(k), LocalOf(k)) THEN Ok(Note(m, k, "outcome", "skipped"))
    ELSE IF opts.policy = "repoWins"
         THEN Ok(Note(Note(m, k, "decision", "skip"), k, "outcome", "skipped"))
    ELSE IF opts.policy = "prompt"
         THEN IF opts.force THEN collectDecided(m, k, "import")
              ELSE Ask(Note(m, k, "prompted", TRUE), "prompt")
    ELSE overwriteRepo(Note(m, k, "decision", "proceed"), k)

handleRepoMissing(m, k) ==
    IF ~opts.importExtras /\ opts.policy \in {"repoWins", "localWins"}
    THEN Ok(Note(Note(m, k, "decision", "skip"), k, "outcome", "skipped"))
    ELSE IF ~opts.importExtras /\ opts.policy = "prompt"
         THEN IF opts.force THEN collectDecided(m, k, "import")
              ELSE Ask(Note(m, k, "prompted", TRUE), "prompt")
    ELSE collectProceed(Note(m, k, "decision", "proceed"), k)

collectEntry(m, k) ==
    LET local == LocalOf(k)
        repo == RepoOf(k)
        f == m.fs
        m0 == [m EXCEPT !.log[k] =
                 [@ EXCEPT !.examined = TRUE,
                           !.present = pathExists(f, repo),
                           !.linked = isSymlink(f, local) /\ sameRealpath(f, local, repo),
                           !.equal = areHashesEqual(hashEntry(f, repo), hashEntry(f, local)),
                           !.canDiff = bothFiles(f, local, repo)]]
    IN  IF isRepoPointingSymlink(f, local, repo) THEN Ok(Note(m0, k, "outcome", "skipped"))
        ELSE IF pathExists(f, repo) THEN handleRepoExists(m0, k)
        ELSE handleRepoMissing(m0, k)

\* getAvailableSources: the enabled agents (the shared folder ~/.agents does
\* not exist on the modelled machine)
getAvailableSources == SelectSeq(AGENT_IDS, AgentEnabled)

gatherForType(source, type) ==
    LET localRoot == agentTypeDir(source, type)
    IN  IF localRoot = NoDir \/ localRoot \notin dirs THEN << >>
        ELSE Keyed(source, type,
                   applyFilters(listTopLevelEntries(fs, dirs, localRoot),
                                AgentFilters(source, type)))

gatherEntriesFromSource(source) ==
    LET types == parseTypeFilter(opts.type)
    IN  Concat([i \in 1..Len(types) |-> gatherForType(source, types[i])])

gatherAll(sources) ==
    Concat([i \in 1..Len(sources) |-> gatherEntriesFromSource(sources[i])])

\* totalCollected of runCollect
totalCollected(l) ==
    Cardinality({k \in EntryKeys : l[k].outcome \in {"imported", "would import"}})

---------------------------------------------------------------------------
(* Status (commands/status.ts) *)

\* A variant that compares the identities before it looks for a symlink
getItemStatus_hashFirst(f, src, dest) ==
    IF ~pathExists(f, dest) THEN "remote_only"
    ELSE IF areHashesEqual(hashEntry(f, src), hashEntry(f, dest)) THEN "ok_copy"
    ELSE IF isSymlink(f, dest)
         THEN IF sameRealpath(f, dest, src) THEN "ok_symlink" ELSE "broken_symlink"
    ELSE "diverged"

getItemStatus(f, src, dest) ==
    IF ~pathExists(f, dest) THEN "remote_only"
    ELSE IF isSymlink(f, dest)
         THEN IF sameRealpath(f, dest, src) THEN "ok_symlink" ELSE "broken_symlink"
    ELSE IF areHashesEqual(hashEntry(f, src), hashEntry(f, dest)) THEN "ok_copy"
    ELSE "diverged"

InSeq(x, sq) == \E i \in 1..Len(sq) : sq[i] = x

\* The filtered repo entries of getTypeStatus
statusRepoEntries(agentId, type) ==
    applyFilters(listTopLevelEntries(fs, dirs, repoTypeDir(type)),
                 AgentFilters(agentId, type))

\* getLocalOnly: the filtered-in local names that are no repo entry and no
\* link to the repo path
getLocalOnly(agentId, type) ==
    LET localRoot == agentTypeDir(agentId, type)
        localEntriesAll == applyFilters(listTopLevelEntries(fs, dirs, localRoot),
                                        AgentFilters(agentId, type))
    IN  {n \in NameSet :
            /\ InSeq(n, localEntriesAll)
            /\ ~InSeq(n, statusRepoEntries(agentId, type))
            /\ ~(isSymlink(fs, join(localRoot, n))
                  /\ sameRealpath(fs, join(localRoot, n), join(repoTypeDir(type), n)))}

\* getTypeStatus and getAgentStatus: the kind of every listed entry ("none"
\* for an entry that is not listed) and the local-only entries
getTypeStatus(k) ==
    IF \/ ~InSeq(k[1], parseAgentFilter(opts.agent))
       \/ ~InSeq(k[2], parseTypeFilter(opts.type))
       \/ ~AgentEnabled(k[1])
       \/ ~InSeq(k[3], statusRepoEntries(k[1], k[2]))
    THEN "none"
    ELSE IF agentTypeDir(k[1], k[2]) = NoDir THEN "remote_only"
    ELSE getItemStatus(fs, RepoOf(k), LocalOf(k))

StatusReport ==
    [made |-> TRUE,
     entries |-> [k \in EntryKeys |-> getTypeStatus(k)],
     localOnly |-> {k \in EntryKeys :
                      /\ InSeq(k[1], parseAgentFilter(opts.agent))
                      /\ InSeq(k[2], parseTypeFilter(opts.type))
                      /\ AgentEnabled(k[1])
                      /\ agentTypeDir(k[1], k[2]) # NoDir
                      /\ k[3] \in getLocalOnly(k[1], k[2])}]

NoReport == [made |-> FALSE, entries |-> [k \in EntryKeys |-> "none"], localOnly |-> {}]

---------------------------------------------------------------------------
(* Initial states: the options of one command and a file system *)

Policies == {"prompt", "repoWins", "localWins"}

InstallOpts ==
    {o \in [cmd : {"install"}, policy : Policies, force : BOOLEAN,
            dryRun : BOOLEAN, mode : {"symlink", "copy"},
            symlinkFallback : {"copy", "error", "prompt"},
            importExtras : {FALSE}, backupsEnabled : BOOLEAN,
            selectAll : {TRUE}, agent : {""}, type : {""}, remote : {FALSE},
     filters : {[include |-> << >>, exclude |-> <<"b">>]}] :
        o.mode = "copy" => o.symlinkFallback = "copy"}

CollectOpts ==
    [cmd : {"collect"}, policy : Policies, force : BOOLEAN,
     dryRun : BOOLEAN, mode : {"symlink"}, symlinkFallback : {"copy"},
     importExtras : BOOLEAN, backupsEnabled : BOOLEAN, selectAll : BOOLEAN,
     agent : {""}, type : {""}, remote : {FALSE},
     filters : {[include |-> << >>, exclude |-> <<"b">>]}]

StatusOpts ==
    [cmd : {"status"}, policy : {"prompt"}, force : {FALSE}, dryRun : {FALSE},
     mode : {"symlink"}, symlinkFallback : {"copy"}, importExtras : {FALSE},
     backupsEnabled : {TRUE}, selectAll : {TRUE},
     agent : {""}, type : {""}, remote : {FALSE},
     filters : {[include |-> << >>, exclude |-> <<"b">>]}]

AllOpts == InstallOpts \cup CollectOpts \cup StatusOpts

AllDirs == {<<o, t>> : o \in Owners, t \in TypeSet}

\* The values of --agent and --type: absent, known, and unknown
AgentArgs == {"", "codex", "opencode", "cursor"}

TypeArgs == {"", "commands", "agents"}

\* The filters of claude-code in the runs that vary them
FilterSets ==
    {[include |-> << >>, exclude |-> <<"b">>],
     [include |-> <<"**">>, exclude |-> << >>],
     [include |-> <<"a">>, exclude |-> << >>],
     [include |-> <<"b">>, exclude |-> <<"b">>],
     [include |-> <<"a", "b">>, exclude |-> <<"a">>]}

EmptyFs == [p \in Paths |-> IF p = ExtX THEN Dir(1) ELSE Missing]

RA == <<"repo", "skills", "a">>

RB == <<"repo", "skills", "b">>

RC == <<"repo", "commands", "a">>

LA == <<"codex", "skills", "a">>

LB == <<"codex", "skills", "b">>

LC == <<"codex", "commands", "a">>

CA == <<"claude-code", "skills", "a">>

CB == <<"claude-code", "skills", "b">>

\* One entry, of every kind on both sides
SingleFs ==
    {[EmptyFs EXCEPT ![RA] = rn, ![LA] = ln] :
        rn \in {Missing, File(1), Dir(1), Link(ExtX), Link(ExtZ)},
        ln \in {Missing, File(1), File(2), Dir(1), Link(RA), Link(ExtX), Link(ExtZ)}}

\* Several entries, types and agents, each entry a file or missing
MultiFs ==
    {[EmptyFs EXCEPT ![RA] = ra, ![RB] = rb, ![RC] = rc,
                     ![LA] = la, ![LB] = lb, ![LC] = lc, ![CA] = ca] :
        ra \in {File(1)}, rb \in {Missing, File(1)}, rc \in {File(1)},
        la \in {File(2)}, lb \in {Missing, File(2)}, lc \in {File(1), File(2)},
        ca \in {Missing, File(2)}}

\* A root directory may be missing only when nothing is under it
DirsFor(f) ==
    {d \cup {RepoMeta} : d \in {d \in SUBSET AllDirs :
        /\ \A p \in Paths \ {ExtX, ExtZ} : pathExists(f, p) => dirname(p) \in d
        /\ AllDirs \ d \subseteq {<<"repo", "skills">>, <<"codex", "skills">>}
        /\ Cardinality(AllDirs \ d) <= 1}}

\* The runs over several entries keep the backups on, fall back to a copy
\* and select every source and entry
MultiOpts ==
    {o \in AllOpts :
        o.backupsEnabled /\ o.symlinkFallback = "copy" /\ o.selectAll}

\* The runs with --agent and --type: one policy, no force, and a repo that
\* may lack its metadata file or a type directory
FilterOpts ==
    {[o EXCEPT !.agent = a, !.type = t, !.filters = fl] :
        o \in {o \in MultiOpts : \/ o.cmd = "status"
                                  \/ /\ o.policy \in {"repoWins", "localWins"}
                                     /\ ~o.force /\ ~o.dryRun
                                     /\ o.mode = "symlink"},
        a \in AgentArgs, t \in TypeArgs, fl \in FilterSets}

FilterFs ==
    {[EmptyFs EXCEPT ![RA] = File(1), ![RB] = File(1), ![RC] = rc,
                     ![LA] = File(2), ![LB] = File(2), ![LC] = File(2),
                     ![CA] = File(2), ![CB] = cb] :
        rc \in {Missing, File(1)}, cb \in {Missing, File(2)}}

FilterDirs(f) ==
    {d \in SUBSET (AllDirs \cup {RepoMeta}) :
        /\ AllDirs \ {<<"repo", "commands">>} \subseteq d
        /\ pathExists(f, RC) => <<"repo", "commands">> \in d}

---------------------------------------------------------------------------
(* Git (git/git.ts, commands/push.ts, commands/pull.ts) *)

\* The repository before any command: fails names the git command whose
\* exit code is non-zero in this environment; dirty: the working tree has
\* uncommitted changes; origin: the remote is configured; behind: the
\* upstream has a commit that HEAD lacks; head: the number of commits of the
\* local history; fetched: FETCH_HEAD has been written under .git
GitClean ==
    [fails |-> "none", dirty |-> FALSE, origin |-> TRUE, behind |-> FALSE,
     head |-> 0, fetched |-> FALSE, pushed |-> FALSE, calls |-> << >>]

\* The version of skills/a that the upstream commit holds
Upstream == File(3)

\* git: the command is spawned once and recorded among the calls of the run
gitRun(g, cmd) == [g EXCEPT !.calls = Append(@, cmd)]

exitsNonZero(g, cmd) == g.fails = cmd

\* The message of gitOrThrow and of pushToOrigin: the caller's message and
\* the diagnostic output of the command
gitOrThrowMessage(cmd) ==
    IF cmd = "status" THEN "Failed to get git status.\nstderr of status"
    ELSE IF cmd = "pull" THEN "git pull failed.\nstderr of pull"
    ELSE IF cmd = "add" THEN "git add failed.\nstderr of add"
    ELSE IF cmd = "commit" THEN "git commit failed.\nstderr of commit"
    ELSE "git push failed:\nstderr of push"

\* What a sequence of git steps leads to: the repository and the error
GitDone(g) == [git |-> g, ok |-> TRUE, msg |-> ""]

GitThrown(g, msg) == [git |-> g, ok |-> FALSE, msg |-> msg]

\* A path of the repo working tree differs between f and h
RepoChanged(f, h) == \E p \in Paths : p[1] = "repo" /\ f[p] # h[p]

\* A variant that commits whatever the porcelain status says
commitIfNeeded_always(g) ==
    LET g1 == gitRun(g, "status")
    IN  IF exitsNonZero(g1, "status") THEN GitThrown(g1, gitOrThrowMessage("status"))
        ELSE LET g2 == gitRun(g1, "commit")
             IN  IF exitsNonZero(g2, "commit")
                 THEN GitThrown(g2, gitOrThrowMessage("commit"))
                 ELSE GitDone([g2 EXCEPT !.dirty = FALSE, !.head = @ + 1])

\* commitIfNeeded: status, then a commit when the tree is dirty
commitIfNeeded(g) ==
    LET g1 == gitRun(g, "status")
    IN  IF exitsNonZero(g1, "status") THEN GitThrown(g1, gitOrThrowMessage("status"))
        ELSE IF ~g1.dirty THEN GitDone(g1)
        ELSE LET g2 == gitRun(g1, "commit")
             IN  IF exitsNonZero(g2, "commit")
                 THEN GitThrown(g2, gitOrThrowMessage("commit"))
                 ELSE GitDone([g2 EXCEPT !.dirty = FALSE, !.head = @ + 1])

\* pushToOrigin: nothing without an origin; getStagedChanges returns the
\* empty list when its diff fails; a failed push is thrown
pushToOrigin(g) ==
    LET g1 == gitRun(g, "remote")
    IN  IF ~g1.origin THEN GitDone(g1)
        ELSE LET g2 == gitRun(gitRun(g1, "diff"), "push")
             IN  IF exitsNonZero(g2, "push")
                 THEN GitThrown(g2, gitOrThrowMessage("push"))
                 ELSE GitDone([g2 EXCEPT !.pushed = TRUE])

\* The git steps of runPush: add, commit if needed, push
addCommitPush(g) ==
    LET g1 == gitRun(g, "add")
    IN  IF exitsNonZero(g1, "add") THEN GitThrown(g1, gitOrThrowMessage("add"))
        ELSE LET c == commitIfNeeded(g1)
             IN  IF c.ok THEN pushToOrigin(c.git) ELSE c

\* runPush with collect false and no dry run
runPush(g, d) ==
    IF ~ensureRepoLooksInitialized(d)
    THEN GitThrown(g, "Repo does not look initialized.")
    ELSE addCommitPush(g)

\* getGitInfo of status --remote: origin, porcelain, then fetch and
\* ahead/behind when there is an origin; a failed fetch is ignored
getGitInfo(g) ==
    LET g1 == gitRun(gitRun(g, "remote"), "status")
    IN  IF exitsNonZero(g1, "status") THEN GitThrown(g1, gitOrThrowMessage("status"))
        ELSE IF ~g1.origin THEN GitDone(g1)
        ELSE LET g2 == gitRun(g1, "fetch")
                 g3 == IF exitsNonZero(g2, "fetch") THEN g2
                       ELSE [g2 EXCEPT !.fetched = TRUE]
             IN  GitDone(gitRun(g3, "rev-list"))

\* The entries runInstall returns as kept: those it skipped by the decision
\* taken on a conflict
keptLocals(l) == SelectSeq(InstallQueue, LAMBDA k : l[k].decision = "skip")

\* One entry of syncKeptLocals: a local symlink into the repo, or one that
\* cannot be resolved, is passed over; the repo entry is backed up when
\* fs.access finds it, removed, and replaced with the dereferenced local
syncKeptLocal(m, k) ==
    LET local == LocalOf(k)
        repo == RepoOf(k)
    IN  IF ~pathExists(m.fs, local) THEN [m |-> m, n |-> 0]
        ELSE IF /\ isSymlink(m.fs, local)
                /\ \/ realpath(m.fs, local) = NoPath
                   \/ realpath(m.fs, local)[1] = "repo"
             THEN [m |-> m, n |-> 0]
        ELSE LET m1 == IF opts.backupsEnabled /\ realpath(m.fs, repo) # NoPath
                       THEN backupEntry(m, k, repo)
                       ELSE m
                 m2 == removeEntry(m1, k, repo)
             IN  [m |-> Note(copyEntryDereference(m2, k, local, repo),
                             k, "outcome", "synced"),
                  n |-> 1]

RECURSIVE syncKeptLocals(_, _)
syncKeptLocals(m, ks) ==
    IF Len(ks) = 0 THEN [m |-> m, n |-> 0]
    ELSE LET one == syncKeptLocal(m, Head(ks))
             rest == syncKeptLocals(one.m, Tail(ks))
         IN  [m |-> rest.m, n |-> one.n + rest.n]

\* The runs of pull: the policy of --conflict-resolution or of the config,
\* the install mode of the config
PullOpts ==
    [cmd : {"pull"}, policy : Policies, force : {FALSE}, dryRun : BOOLEAN,
     mode : {"symlink"}, symlinkFallback : {"copy"}, importExtras : {FALSE},
     backupsEnabled : BOOLEAN, selectAll : {TRUE},
     agent : {""}, type : {""}, remote : {FALSE},
     filters : {[include |-> << >>, exclude |-> <<"b">>]}]

PullFs ==
    {[EmptyFs EXCEPT ![RA] = rn, ![LA] = ln] :
        rn \in {File(1), Link(ExtX), Link(ExtZ)},
        ln \in {Missing, File(2), Link(ExtZ)}}

\* A failing git command is explored from a clean tree behind its upstream
PullGit ==
    {[GitClean EXCEPT !.fails = f, !.dirty = d, !.origin = o, !.behind = b] :
        f \in {"none"}, d \in BOOLEAN, o \in BOOLEAN, b \in BOOLEAN}
    \cup
    {[GitClean EXCEPT !.fails = f, !.behind = TRUE] :
        f \in {"status", "diff", "pull", "add", "commit", "push"}}

\* The runs of push: the command line gives --dry-run and --message only,
\* so the collect of push runs with the policy of the config and prompts
\* for its sources and entries
PushOpts ==
    [cmd : {"push"}, policy : Policies, force : {FALSE}, dryRun : BOOLEAN,
     mode : {"symlink"}, symlinkFallback : {"copy"}, importExtras : {FALSE},
     backupsEnabled : {TRUE}, selectAll : {FALSE},
     agent : {""}, type : {""}, remote : {FALSE},
     filters : {[include |-> << >>, exclude |-> <<"b">>]}]

\* The runs of status --remote
RemoteOpts == {[o EXCEPT !.remote = TRUE] : o \in StatusOpts}

RemoteGit ==
    {[GitClean EXCEPT !.fails = f, !.dirty = d, !.origin = o, !.behind = b] :
        f \in {"none", "status", "fetch"}, d \in BOOLEAN, o \in BOOLEAN,
        b \in BOOLEAN}

Init ==
    /\ \/ /\ opts \in AllOpts /\ fs \in SingleFs /\ dirs \in DirsFor(fs)
          /\ git = GitClean
       \/ /\ opts \in MultiOpts /\ fs \in MultiFs /\ dirs \in DirsFor(fs)
          /\ git = GitClean
       \/ /\ opts \in FilterOpts /\ fs \in FilterFs /\ dirs \in FilterDirs(fs)
          /\ git = GitClean
       \/ /\ opts \in PullOpts /\ fs \in PullFs /\ dirs \in DirsFor(fs)
          /\ git \in PullGit
       \/ /\ opts \in RemoteOpts /\ fs \in PullFs /\ dirs \in DirsFor(fs)
          /\ git \in RemoteGit
       \/ /\ opts \in PushOpts /\ fs \in PullFs /\ dirs \in DirsFor(fs)
          /\ git \in {[GitClean EXCEPT !.fails = f, !.dirty = d, !.origin = o] :
                         f \in {"none", "status", "add", "commit", "push"},
                         d \in BOOLEAN, o \in BOOLEAN}
    /\ canSymlink \in BOOLEAN
    /\ opts.cmd # "install" \/ opts.mode = "copy" => canSymlink
    /\ backups = {}
    /\ run = 1
    /\ status = "idle"
    /\ exitCode = 0
    /\ error = ""
    /\ queue = << >>
    /\ log = FreshLog
    /\ prevLog = FreshLog
    /\ snap = [fs |-> fs, dirs |-> dirs, backups |-> backups, rehearsed |-> FALSE, installed |-> FALSE,
               head |-> git.head, fetched |-> git.fetched]
    /\ report = NoReport

---------------------------------------------------------------------------
(* Actions *)

\* Where the command stands once its driver has returned: runCollect
\* returns to runPush when push called it
Returned == IF opts.cmd = "push" THEN "collected" ELSE "done"

\* A variant in which pull offers the sync whatever install returned
Finished_syncAlways(l) ==
    IF opts.cmd \in {"collect", "push"} /\ ~opts.dryRun /\ totalCollected(l) > 0
    THEN "pushPrompt"
    ELSE IF opts.cmd = "pull" /\ ~opts.dryRun
    THEN "syncPrompt"
    ELSE Returned

\* Where the driver stands once its loop over the entries is over
Finished(l) ==
    IF opts.cmd \in {"collect", "push"} /\ ~opts.dryRun /\ totalCollected(l) > 0
    THEN "pushPrompt"
    ELSE IF opts.cmd = "pull" /\ ~opts.dryRun /\ Len(keptLocals(l)) > 0
    THEN "syncPrompt"
    ELSE Returned

\* The entries are processed one at a time: r is what processing the head of
\* the queue led to
Advance(r) ==
    /\ fs' = r.m.fs
    /\ dirs' = r.m.dirs
    /\ backups' = r.m.backups
    /\ log' = r.m.log
    /\ IF r.next = "next"
       THEN /\ queue' = Tail(queue)
            /\ status' = IF Len(queue) > 1 THEN "running" ELSE Finished(r.m.log)
            /\ UNCHANGED <<exitCode, error>>
       ELSE IF r.next = "throw"
       THEN /\ status' = "failed"
            /\ exitCode' = r.code
            /\ error' = r.msg
            /\ UNCHANGED queue
       ELSE /\ status' = r.next
            /\ UNCHANGED <<queue, exitCode, error>>
    /\ git' = [git EXCEPT !.dirty = @ \/ RepoChanged(fs, r.m.fs)]
    /\ UNCHANGED <<opts, canSymlink, run, prevLog, snap, report>>

Fail(code, msg) ==
    /\ status' = "failed"
    /\ exitCode' = code
    /\ error' = msg
    /\ UNCHANGED <<git, opts, canSymlink, fs, dirs, backups, run, queue, log, prevLog, snap, report>>

\* A sequence of git steps leads to next, or to its error
GitLeads(r, next) ==
    /\ git' = r.git
    /\ status' = IF r.ok THEN next ELSE "failed"
    /\ exitCode' = IF r.ok THEN exitCode ELSE DEFAULT_EXIT_CODE
    /\ error' = IF r.ok THEN error ELSE r.msg
    /\ UNCHANGED <<opts, canSymlink, run, queue, prevLog, snap, report>>

\* A sequence of git steps ends the command, with or without an error
GitEnds(r) == GitLeads(r, "done")

\* runPull from the summary of the incoming changes to the git pull:
\* getDiffSummary returns the empty list when its diff fails
Pulled(g) ==
    LET g1 == IF opts.dryRun THEN g ELSE gitRun(g, "diff")
        g2 == gitRun(g1, "pull")
    IN  IF exitsNonZero(g2, "pull")
        THEN /\ GitEnds(GitThrown(g2, gitOrThrowMessage("pull")))
             /\ UNCHANGED <<fs, dirs, backups, log>>
        ELSE /\ git' = [g2 EXCEPT !.head = IF g2.behind THEN @ + 1 ELSE @,
                                  !.behind = FALSE]
             /\ fs' = IF g2.behind THEN [fs EXCEPT ![RA] = Upstream] ELSE fs
             /\ dirs' = IF g2.behind THEN dirs \cup {dirname(RA)} ELSE dirs
             /\ status' = "pulled"
             /\ UNCHANGED <<opts, canSymlink, backups, run, exitCode, error, queue, log,
                            prevLog, snap, report>>

\* The checks a command makes before its loop: the message of the error
\* that is thrown, "" when there is none; withAgent tells whether the
\* command parses --agent
Checked(withAgent) ==
    IF ~ensureRepoLooksInitialized(dirs) THEN "Repo does not look initialized."
    ELSE IF withAgent /\ Len(parseAgentFilter(opts.agent)) = 0 THEN "Unknown agent."
    ELSE IF Len(parseTypeFilter(opts.type)) = 0 THEN "Unknown type."
    ELSE ""

\* In a second run the user gives the answers of the first
Replays(k, ans) == prevLog[k].answer # "" => ans = prevLog[k].answer

\* The prompt returns ans; the diffs shown while it was pending are over
Answered(k, ans) == Note(Note(World, k, "diffs", 0), k, "answer", ans)

\* runInstall up to its loop
StartInstall ==
    /\ \/ status = "idle" /\ opts.cmd = "install"
       \/ status = "pulled" /\ opts.cmd = "pull"
    /\ IF Checked(TRUE) # ""
       THEN Fail(DEFAULT_EXIT_CODE, Checked(TRUE))
       ELSE /\ queue' = InstallQueue
            /\ status' = IF Len(InstallQueue) = 0 THEN "done" ELSE "running"
            /\ UNCHANGED <<git, opts, canSymlink, fs, dirs, backups, run, exitCode, error, log,
                           prevLog, snap, report>>

\* installEntry on the next entry, up to its return or its prompt
InstallEntry ==
    /\ status = "running"
    /\ opts.cmd \in {"install", "pull"}
    /\ Advance(installEntry(World, Head(queue), canSymlink))

\* The prompt of decideConflict is answered
AnswerConflict ==
    /\ status = "prompt"
    /\ opts.cmd \in {"install", "pull"}
    /\ LET k == Head(queue) IN
       \/ /\ log[k].canDiff
          /\ log[k].diffs < MaxDiffs
          /\ log' = [log EXCEPT ![k].diffs = @ + 1]
          /\ UNCHANGED <<git, opts, canSymlink, fs, dirs, backups, run, status, exitCode, error,
                         queue, prevLog, snap, report>>
       \/ \E ans \in {"replace", "skip", "abort", "undefined"} :
             /\ Replays(k, ans)
             /\ Advance(installDecided(Answered(k, ans), k, ans, canSymlink))

\* The prompt of installOne after a failed symlink is answered
AnswerFallback ==
    /\ status = "fallback"
    /\ LET k == Head(queue) IN
       \E ans \in {"copy", "abort", "undefined"} :
          IF ans = "copy"
          THEN Advance(Ok(Note(copyEntry(World, k, RepoOf(k), LocalOf(k)),
                               k, "outcome", "installed")))
          ELSE Advance(Throw(Note(World, k, "outcome", "aborted"), EXIT_ABORT, "Aborted."))

\* The entries of the selected sources become the queue, or the run ends
Gathered(entries, nextStatus) ==
    /\ queue' = entries
    /\ status' = IF Len(entries) = 0 THEN Returned ELSE nextStatus
    /\ UNCHANGED <<git, opts, canSymlink, fs, dirs, backups, run, exitCode, error, log, prevLog, snap, report>>

\* runCollect up to the selection of the sources
BeginCollect ==
    IF Checked(FALSE) # ""
    THEN Fail(DEFAULT_EXIT_CODE, Checked(FALSE))
    ELSE IF opts.selectAll
    THEN Gathered(gatherAll(getAvailableSources), "running")
    ELSE /\ status' = "selectSources"
         /\ UNCHANGED <<git, opts, canSymlink, fs, dirs, backups, run, exitCode, error, queue,
                        log, prevLog, snap, report>>

\* The collect command
StartCollect ==
    /\ status = "idle"
    /\ opts.cmd = "collect"
    /\ BeginCollect

\* promptForSources is answered: a cancel, or a set of sources
SelectSources ==
    /\ status = "selectSources"
    /\ \/ Fail(DEFAULT_EXIT_CODE, "Aborted.")
       \/ \E sel \in SUBSET {"codex", "claude-code"} :
             Gathered(gatherAll(SelectSeq(getAvailableSources, LAMBDA a : a \in sel)),
                      "selectEntries")

\* promptForAllEntries is answered: a cancel, or a set of entries
SelectEntries ==
    /\ status = "selectEntries"
    /\ \/ Fail(DEFAULT_EXIT_CODE, "Aborted.")
       \/ \E sel \in SUBSET {queue[i] : i \in 1..Len(queue)} :
             Gathered(SelectSeq(queue, LAMBDA k : k \in sel), "running")

\* collectEntry on the next entry, up to its return or its prompt
CollectEntry ==
    /\ status = "running"
    /\ opts.cmd \in {"collect", "push"}
    /\ Advance(collectEntry(World, Head(queue)))

\* The prompt of decideRepoConflict is answered
AnswerRepoConflict ==
    /\ status = "prompt"
    /\ opts.cmd \in {"collect", "push"}
    /\ LET k == Head(queue) IN
       \/ /\ log[k].canDiff
          /\ log[k].diffs < MaxDiffs
          /\ log' = [log EXCEPT ![k].diffs = @ + 1]
          /\ UNCHANGED <<git, opts, canSymlink, fs, dirs, backups, run, status, exitCode, error,
                         queue, prevLog, snap, report>>
       \/ \E ans \in {"import", "skip", "abort", "undefined", "cancel"} :
             /\ Replays(k, ans)
             /\ LET m == Answered(k, ans) IN
                IF ans = "cancel"
                THEN Advance(Throw(Note(m, k, "outcome", "aborted"),
                                   DEFAULT_EXIT_CODE, "Aborted."))
                ELSE IF ans \in {"undefined", "abort"}
                THEN Advance(Throw(Note(m, k, "outcome", "aborted"), EXIT_ABORT,
                                   "Aborted due to unresolved conflicts."))
                ELSE Advance(collectDecided(m, k, ans))

\* promptPush is answered: a cancel, no, or yes
AnswerPush ==
    /\ status = "pushPrompt"
    /\ \/ Fail(DEFAULT_EXIT_CODE, "Aborted.")
       \/ /\ status' = Returned
          /\ UNCHANGED <<git, opts, canSymlink, fs, dirs, backups, run, exitCode, error, queue,
                         log, prevLog, snap, report>>
       \/ /\ GitLeads(runPush(git, dirs), Returned)
          /\ UNCHANGED <<fs, dirs, backups, log>>

\* runPush up to its prompt: the command line never gives the collect
\* option, so promptCollect is always shown
StartPush ==
    /\ status = "idle"
    /\ opts.cmd = "push"
    /\ IF ~ensureRepoLooksInitialized(dirs)
       THEN Fail(DEFAULT_EXIT_CODE, "Repo does not look initialized.")
       ELSE /\ status' = "collectPrompt"
            /\ UNCHANGED <<git, opts, canSymlink, fs, dirs, backups, run, exitCode, error,
                           queue, log, prevLog, snap, report>>

\* promptCollect is answered: a cancel, no, or yes; on yes runCollect starts
\* with the dry-run flag of push
AnswerCollect ==
    /\ status = "collectPrompt"
    /\ \/ Fail(DEFAULT_EXIT_CODE, "Aborted.")
       \/ /\ status' = "collected"
          /\ UNCHANGED <<git, opts, canSymlink, fs, dirs, backups, run, exitCode, error, queue,
                         log, prevLog, snap, report>>
       \/ BeginCollect

\* runPush after its collect step: nothing more in a dry run, else add,
\* commit if needed, push
PushTail ==
    /\ status = "collected"
    /\ GitEnds(IF opts.dryRun THEN GitDone(git) ELSE addCommitPush(git))
    /\ UNCHANGED <<fs, dirs, backups, log>>

\* runPull up to its prompt, or up to runInstall
StartPull ==
    /\ status = "idle"
    /\ opts.cmd = "pull"
    /\ IF ~ensureRepoLooksInitialized(dirs)
       THEN Fail(DEFAULT_EXIT_CODE, "Repo does not look initialized.")
       ELSE LET g == gitRun(git, "status")
            IN  IF exitsNonZero(g, "status")
                THEN GitEnds(GitThrown(g, gitOrThrowMessage("status")))
                     /\ UNCHANGED <<fs, dirs, backups, log>>
                ELSE IF g.dirty
                THEN /\ status' = "pullConfirm"
                     /\ git' = g
                     /\ UNCHANGED <<opts, canSymlink, fs, dirs, backups, run, exitCode,
                                    error, queue, log, prevLog, snap, report>>
                ELSE Pulled(g)

\* The prompt on uncommitted changes is answered: a cancel, no, or yes
AnswerPullConfirm ==
    /\ status = "pullConfirm"
    /\ \/ Fail(DEFAULT_EXIT_CODE, "Aborted.")
       \/ /\ status' = "done"
          /\ UNCHANGED <<git, opts, canSymlink, fs, dirs, backups, run, exitCode, error, queue,
                         log, prevLog, snap, report>>
       \/ Pulled(git)

\* promptSyncAndPush is answered: a cancel, no, or yes; on yes the kept
\* locals are synced into the repo and, when any was, pushed
AnswerSync ==
    /\ status = "syncPrompt"
    /\ \/ Fail(DEFAULT_EXIT_CODE, "Aborted.")
       \/ /\ status' = "done"
          /\ UNCHANGED <<git, opts, canSymlink, fs, dirs, backups, run, exitCode, error, queue,
                         log, prevLog, snap, report>>
       \/ LET s == syncKeptLocals(World, keptLocals(log))
              g == [git EXCEPT !.dirty = @ \/ RepoChanged(fs, s.m.fs)]
          IN  /\ fs' = s.m.fs
              /\ dirs' = s.m.dirs
              /\ backups' = s.m.backups
              /\ log' = s.m.log
              /\ GitEnds(IF s.n > 0 THEN runPush(g, s.m.dirs) ELSE GitDone(g))

\* runStatus: read and classify
RunStatus ==
    /\ status = "idle"
    /\ opts.cmd = "status"
    /\ IF Checked(TRUE) # ""
       THEN Fail(DEFAULT_EXIT_CODE, Checked(TRUE))
       ELSE IF opts.remote
       THEN LET r == getGitInfo(git)
            IN  /\ report' = IF r.ok THEN StatusReport ELSE report
                /\ git' = r.git
                /\ status' = IF r.ok THEN "done" ELSE "failed"
                /\ exitCode' = IF r.ok THEN exitCode ELSE DEFAULT_EXIT_CODE
                /\ error' = IF r.ok THEN error ELSE r.msg
                /\ UNCHANGED <<opts, canSymlink, fs, dirs, backups, run, queue, log,
                               prevLog, snap>>
       ELSE /\ report' = StatusReport
            /\ status' = "done"
            /\ UNCHANGED <<git, opts, canSymlink, fs, dirs, backups, run, exitCode, error, queue,
                           log, prevLog, snap>>

\* The same command is run again, with the same options
Rerun ==
    /\ status = "done"
    /\ run < MaxRuns
    /\ run' = run + 1
    /\ status' = "idle"
    /\ prevLog' = log
    /\ log' = FreshLog
    /\ queue' = << >>
    /\ snap' = [fs |-> fs, dirs |-> dirs, backups |-> backups, rehearsed |-> FALSE, installed |-> FALSE,
                head |-> git.head, fetched |-> git.fetched]
    /\ git' = [git EXCEPT !.calls = << >>]
    /\ UNCHANGED <<opts, canSymlink, fs, dirs, backups, exitCode, error, report>>

\* After a dry run the same command is run without --dry-run
RunForReal ==
    /\ status = "done"
    /\ opts.cmd \in {"install", "collect"}
    /\ opts.dryRun
    /\ run < MaxRuns
    /\ run' = run + 1
    /\ opts' = [opts EXCEPT !.dryRun = FALSE]
    /\ status' = "idle"
    /\ prevLog' = log
    /\ log' = FreshLog
    /\ queue' = << >>
    /\ snap' = [fs |-> fs, dirs |-> dirs, backups |-> backups, rehearsed |-> TRUE, installed |-> FALSE,
                head |-> git.head, fetched |-> git.fetched]
    /\ git' = [git EXCEPT !.calls = << >>]
    /\ UNCHANGED <<canSymlink, fs, dirs, backups, exitCode, error, report>>

\* After an install that wrote, the status command is run with the same
\* configuration
ThenStatus ==
    /\ status = "done"
    /\ opts.cmd = "install"
    /\ ~opts.dryRun
    /\ run < MaxRuns
    /\ run' = run + 1
    /\ opts' = [opts EXCEPT !.cmd = "status"]
    /\ status' = "idle"
    /\ prevLog' = log
    /\ log' = FreshLog
    /\ queue' = << >>
    /\ snap' = [fs |-> fs, dirs |-> dirs, backups |-> backups, rehearsed |-> FALSE,
                installed |-> TRUE, head |-> git.head, fetched |-> git.fetched]
    /\ git' = [git EXCEPT !.calls = << >>]
    /\ UNCHANGED <<canSymlink, fs, dirs, backups, exitCode, error, report>>

Next ==
    \/ StartInstall
    \/ InstallEntry
    \/ AnswerConflict
    \/ AnswerFallback
    \/ StartCollect
    \/ SelectSources
    \/ SelectEntries
    \/ CollectEntry
    \/ AnswerRepoConflict
    \/ AnswerPush
    \/ StartPush
    \/ AnswerCollect
    \/ PushTail
    \/ StartPull
    \/ AnswerPullConfirm
    \/ AnswerSync
    \/ RunStatus
    \/ Rerun
    \/ RunForReal
    \/ ThenStatus

Spec == Init /\ [][Next]_vars

TypeOK ==
    /\ status \in {"idle", "selectSources", "selectEntries", "running", "prompt",
                   "fallback", "pushPrompt", "pullConfirm", "pulled", "syncPrompt",
                   "collectPrompt", "collected",
                   "done", "failed"}
    /\ exitCode \in {0, DEFAULT_EXIT_CODE, EXIT_ABORT}
    /\ run \in 1..MaxRuns
    /\ canSymlink \in BOOLEAN
    /\ \A p \in Paths \ {ExtX, ExtZ} : pathExists(fs, p) => dirname(p) \in dirs

---------------------------------------------------------------------------
(* Properties *)

\* The entry was examined with its destination present, not linked to the
\* source and with an identity that differs from the source's
Diverged(l) == l.examined /\ l.present /\ ~l.equal /\ ~l.linked

Untouched(l) == ~l.prompted /\ l.steps = << >> /\ l.outcome = "skipped"

\* C1: an entry whose destination is present with the identity of the source
\* is skipped by install and by collect: no prompt, backup, removal, copy or
\* link creation, under every policy, force and dry-run value.
C1_EqualIdentitySkipped ==
    \A k \in EntryKeys :
        log[k].examined /\ log[k].present /\ log[k].equal => Untouched(log[k])

\* C2: a local symlink whose realpath is the realpath of the repo entry is
\* skipped by install and by collect without prompt, backup, removal or import,
\* and status reports it as ok_symlink and never as local-only.
C2_LinkedExempt ==
    /\ \A k \in EntryKeys :
          log[k].examined /\ log[k].linked =>
             /\ Untouched(log[k])
             /\ log[k].decision = ""
             /\ fs[LocalOf(k)] = snap.fs[LocalOf(k)]
    /\ report.made =>
          \A k \in EntryKeys :
             /\ agentTypeDir(k[1], k[2]) # NoDir
             /\ fs[LocalOf(k)].kind = "symlink"
             /\ realpath(fs, LocalOf(k)) # NoPath
             /\ realpath(fs, LocalOf(k)) = realpath(fs, RepoOf(k))
             /\ InSeq(k[3], statusRepoEntries(k[1], k[2]))
             => report.entries[k] = "ok_symlink" /\ k \notin report.localOnly

C2_Witness ==
    \/ /\ opts.cmd \in {"install", "collect"}
       /\ opts.policy \in {"repoWins", "localWins"}
       /\ \E k \in EntryKeys : log[k].examined /\ log[k].linked /\ ~log[k].equal
    \/ report.made /\ \E k \in EntryKeys : report.entries[k] = "ok_symlink"

\* C3: for a destination that is present, diverged and not linked, with force
\* unset: install replaces the local entry under repoWins and leaves it alone
\* under localWins; collect leaves the repo entry alone under repoWins and
\* overwrites it with the local entry under localWins.
C3_Examined(k) ==
    /\ ~log[k].examined
    /\ log'[k].examined
    /\ Diverged(log'[k])
    /\ ~opts.force

C3_InstallReplaces(k) ==
    /\ log'[k].decision = "replace"
    /\ ~log'[k].prompted
    /\ opts.dryRun => fs' = fs
    /\ ~opts.dryRun =>
          /\ HasStep(log'[k], "remove")
          /\ IF log'[k].outcome = "installed"
             THEN fs'[LocalOf(k)] \in {Link(RepoOf(k)), fs[RepoOf(k)]}
             ELSE fs'[LocalOf(k)] = Missing

C3_CollectOverwrites(k) ==
    /\ log'[k].decision = "proceed"
    /\ ~log'[k].prompted
    /\ opts.dryRun => fs' = fs
    /\ ~opts.dryRun =>
          /\ HasStep(log'[k], "remove")
          /\ IF log'[k].outcome = "imported"
             THEN /\ fs'[RepoOf(k)].kind \in {"file", "dir"}
                  /\ fs'[RepoOf(k)] = fs[realpath(fs, LocalOf(k))]
             ELSE fs'[RepoOf(k)] = Missing

C3_LeftAlone(k) ==
    /\ log'[k].decision = "skip"
    /\ Untouched(log'[k])
    /\ fs' = fs

C3_PolicyDecides ==
    [][\A k \in EntryKeys :
          C3_Examined(k) =>
             /\ opts.cmd = "install" /\ opts.policy = "repoWins" => C3_InstallReplaces(k)
             /\ opts.cmd = "install" /\ opts.policy = "localWins" => C3_LeftAlone(k)
             /\ opts.cmd = "collect" /\ opts.policy = "repoWins" => C3_LeftAlone(k)
             /\ opts.cmd = "collect" /\ opts.policy = "localWins" => C3_CollectOverwrites(k)]_vars

C3_Witness ==
    /\ opts.cmd = "install"
    /\ opts.policy = "repoWins"
    /\ ~opts.force
    /\ ~opts.dryRun
    /\ \E k \in EntryKeys :
          Diverged(log[k]) /\ log[k].outcome = "installed" /\ HasStep(log[k], "remove")

\* C4 as stated: with force set, a present and diverged destination is always
\* replaced without a prompt, under every policy and in both directions, and
\* its backup is taken when backups are enabled.
C4_ForceAlwaysReplaces ==
    \A k \in EntryKeys :
        Diverged(log[k]) /\ opts.force =>
           /\ ~log[k].prompted
           /\ log[k].decision \in {"replace", "import", "proceed"}

\* C4 as amended: with force set no conflict prompt is shown; under policy
\* prompt the action is replace, under repoWins and localWins the policy
\* alone decides; a replacement outside a dry run with backups enabled backs
\* the destination up before it removes it.
C4_ForceSkipsPrompt ==
    \A k \in EntryKeys :
        Diverged(log[k]) /\ opts.force =>
           /\ ~log[k].prompted
           /\ log[k].answer = ""
           /\ opts.policy = "prompt" =>
                 log[k].decision = IF opts.cmd = "install" THEN "replace" ELSE "import"
           /\ opts.policy = "repoWins" =>
                 log[k].decision = IF opts.cmd = "install" THEN "replace" ELSE "skip"
           /\ opts.policy = "localWins" =>
                 log[k].decision = IF opts.cmd = "install" THEN "skip" ELSE "proceed"
           /\ log[k].decision # "skip" /\ opts.backupsEnabled /\ ~opts.dryRun =>
                 /\ Len(log[k].steps) >= 2
                 /\ log[k].steps[1] = "backup"
                 /\ log[k].steps[2] = "remove"
                 /\ \E b \in backups : b.run = run /\ b.key = k

C4_Witness ==
    /\ opts.force
    /\ opts.policy = "prompt"
    /\ opts.backupsEnabled
    /\ ~opts.dryRun
    /\ \E k \in EntryKeys :
          Diverged(log[k]) /\ HasStep(log[k], "backup") /\ log[k].outcome \in {"installed", "imported"}

\* C5: in collect without importExtras, an entry that is absent from the repo
\* is added to the repo only after the user chose "import" at the prompt for
\* that entry.
C5_ExtrasNeedApproval ==
    opts.cmd = "collect" /\ ~opts.importExtras =>
        \A k \in EntryKeys :
            log[k].examined /\ ~log[k].present /\ log[k].outcome \in {"imported", "would import"}
               => log[k].prompted /\ log[k].answer = "import"

\* C6: a conflict prompt that is cancelled or returns no decision fails the
\* command with an Aborted error, and the entry is neither replaced, removed
\* nor imported.
C6_CancelAborts ==
    \A k \in EntryKeys :
        log[k].prompted /\ log[k].answer \in {"undefined", "cancel"} =>
           /\ status = "failed"
           /\ error \in {"Aborted.", "Aborted due to unresolved conflicts."}
           /\ ~Wrote(log[k])
           /\ log[k].outcome = "aborted"

\* C7: a decision of abort ends the run at that entry: no later entry is
\* examined, prompted for or mutated, nothing changes afterwards, and what was
\* materialized before the abort stays.
C7_AbortedAt(k) == log[k].decision = "abort" \/ log[k].answer = "abort"

C7_AbortStopsRun ==
    /\ [](\A k \in EntryKeys :
             C7_AbortedAt(k) =>
                /\ status = "failed"
                /\ exitCode = EXIT_ABORT
                /\ Len(queue) > 0
                /\ k = Head(queue)
                /\ ~Wrote(log[k])
                /\ \A i \in 2..Len(queue) : log[queue[i]] = EmptyLog
                /\ \A j \in EntryKeys :
                      /\ log[j].outcome = "installed" => pathExists(fs, LocalOf(j))
                      /\ log[j].outcome = "imported" => pathExists(fs, RepoOf(j)))
    /\ [][(\E k \in EntryKeys : C7_AbortedAt(k)) => UNCHANGED vars]_vars

C7_Witness ==
    /\ status = "failed"
    /\ Len(queue) >= 2
    /\ C7_AbortedAt(Head(queue))
    /\ \E j \in EntryKeys : log[j].outcome \in {"installed", "imported"}

\* C8: every user abort, a cancelled prompt or the choice "abort", reaches the
\* command boundary as an error with the exit code reserved for aborts, which
\* is not the generic failure code.
C8_AbortExitCode ==
    /\ EXIT_ABORT # DEFAULT_EXIT_CODE
    /\ status = "failed" /\ error \in {"Aborted.", "Aborted due to unresolved conflicts."}
          => exitCode = EXIT_ABORT
    /\ \A k \in EntryKeys :
          log[k].answer \in {"abort", "cancel", "undefined"}
             => status = "failed" /\ exitCode = EXIT_ABORT

\* C9: install is idempotent: a second run with the same options right after
\* a run that completed performs no backup, removal, copy or link creation.
C9_InstallIdempotent ==
    opts.cmd = "install" /\ run >= 2 =>
        \A k \in EntryKeys : ~Wrote(log[k])

\* C10: a dry run of install or collect writes nothing: no entry or directory
\* is created, modified or removed under the repo, a local root or the
\* backups directory.
C10_DryRunWritesNothing ==
    opts.dryRun =>
        /\ fs = snap.fs
        /\ dirs = snap.dirs
        /\ backups = snap.backups

\* The filtered-in repo entries that status lists for an enabled agent
C14_Listed(k) ==
    /\ AgentEnabled(k[1])
    /\ opts.agent \in {"", k[1]}
    /\ opts.type \in {"", k[2]}
    /\ pathExists(fs, RepoOf(k))
    /\ InSeq(k[3], applyFilters(Names, AgentFilters(k[1], k[2])))

C14_Resolves(p) == realpath(fs, p) # NoPath

C14_Kind(k) ==
    LET local == LocalOf(k)
        repo == RepoOf(k)
    IN  IF agentTypeDir(k[1], k[2]) = NoDir \/ fs[local].kind = "missing"
        THEN "remote_only"
        ELSE IF fs[local].kind = "symlink"
             THEN IF /\ C14_Resolves(local)
                     /\ C14_Resolves(repo)
                     /\ realpath(fs, local) = realpath(fs, repo)
                  THEN "ok_symlink"
                  ELSE "broken_symlink"
        ELSE IF /\ fs[local].kind = fs[repo].kind
                /\ fs[local].data = fs[repo].data
             THEN "ok_copy"
             ELSE "diverged"

\* C14: status gives every filtered-in repo entry of an enabled agent one
\* kind: remote_only iff there is no local root or no local entry,
\* ok_symlink iff the local entry is a symlink with the realpath of the repo
\* entry, broken_symlink iff it is another symlink, ok_copy iff it is no
\* symlink and has the identity of the repo entry, diverged otherwise.
C14_StatusKinds ==
    report.made =>
        \A k \in EntryKeys : C14_Listed(k) => report.entries[k] = C14_Kind(k)

C14_Witness ==
    /\ report.made
    /\ \E k \in EntryKeys :
          /\ C14_Listed(k)
          /\ report.entries[k] = "broken_symlink"
          /\ areHashesEqual(hashEntry(fs, RepoOf(k)), hashEntry(fs, LocalOf(k)))

\* The name of k is filtered out for its agent and type
C16_FilteredOut(k) ==
    LET filters == AgentFilters(k[1], k[2])
        included == \/ Len(filters.include) = 0
                    \/ \E i \in 1..Len(filters.include) :
                          filters.include[i] \in {"**", k[3]}
        excluded == \E i \in 1..Len(filters.exclude) :
                          filters.exclude[i] \in {"**", k[3]}
    IN  ~(included /\ ~excluded)

\* C16: a name survives applyFilters iff it matches an include glob (an
\* empty include list matches everything) and no exclude glob; a name that
\* is filtered out for an agent and type is never queued, installed,
\* replaced, backed up or imported for that agent, and status lists it
\* neither in entries nor in localOnly.
C16_FilteredInvisible ==
    \A k \in EntryKeys :
        /\ InSeq(k[3], applyFilters(Names, AgentFilters(k[1], k[2]))) <=> ~C16_FilteredOut(k)
        /\ C16_FilteredOut(k) =>
              /\ log[k] = EmptyLog
              /\ \A i \in 1..Len(queue) : queue[i] # k
              /\ \A b \in backups : b.key # k
              /\ agentTypeDir(k[1], k[2]) # NoDir =>
                    fs[LocalOf(k)] = snap.fs[LocalOf(k)]
              /\ report.made => report.entries[k] = "none" /\ k \notin report.localOnly

C16_Witness ==
    /\ status = "done"
    /\ \E k \in EntryKeys :
          /\ C16_FilteredOut(k)
          /\ agentTypeDir(k[1], k[2]) # NoDir
          /\ pathExists(fs, RepoOf(k))
          /\ pathExists(fs, LocalOf(k))
          /\ \/ report.made
             \/ \E j \in EntryKeys :
                   j[1] = k[1] /\ log[j].outcome \in {"installed", "imported", "skipped"}

\* C17: after an install with mode symlink the identity of the destination
\* is symlink(target = repo source path) and its realpath is the source's;
\* after an install with mode copy the destination is no symlink and has the
\* file or directory identity of the source.
C17_InstallRoundTrip ==
    \A k \in EntryKeys :
        log[k].outcome = "installed" =>
            LET local == LocalOf(k)
                repo == RepoOf(k)
            IN  /\ HasStep(log[k], "symlink") =>
                      /\ hashEntry(fs, local) =
                            [kind |-> "symlink", sha256 |-> 0, target |-> repo]
                      /\ realpath(fs, repo) # NoPath =>
                            realpath(fs, local) = realpath(fs, repo)
                /\ HasStep(log[k], "copy") =>
                      /\ ~isSymlink(fs, local)
                      /\ hashEntry(fs, local).kind \in {"file", "dir"}
                      /\ areHashesEqual(hashEntry(fs, local), hashEntry(fs, repo))

\* The entry went through installOne while fs.symlink fails
C18_SymlinkFailed(l) ==
    /\ opts.mode = "symlink"
    /\ ~opts.dryRun
    /\ ~canSymlink
    /\ l.outcome \in {"installed", "error"} \/ l.fallbackPrompted

C19_BadInput ==
    \/ ~ensureRepoLooksInitialized(snap.dirs)
    \/ opts.agent # "" /\ ~isAgentId(opts.agent)
    \/ opts.type # "" /\ ~isArtifactType(opts.type)

C19_PreconditionsFailFirst ==
    opts.cmd \in {"install", "collect", "status"} /\ status # "idle" /\ C19_BadInput =>
        /\ status = "failed"
        /\ exitCode = DEFAULT_EXIT_CODE
        /\ log = FreshLog
        /\ queue = << >>
        /\ fs = snap.fs
        /\ dirs = snap.dirs
        /\ backups = snap.backups
        /\ ~report.made

\* C11: what a dry run reports for an entry, skip or install/import, is what
\* the run without --dry-run then does for it, from the same state and with
\* the same options and answers.
C11_DryRunPredicts ==
    snap.rehearsed =>
        \A k \in EntryKeys :
            /\ log[k].outcome \in {"skipped", "installed", "imported"}
            /\ prevLog[k].outcome \in {"skipped", "would install", "would import"}
            => (log[k].outcome = "skipped" <=> prevLog[k].outcome = "skipped")

\* C12: pull with --dry-run writes nothing under the repo root or a local
\* root: the entries, the directories and the history of the repo are what
\* they were when the command started.
C12_PullDryRunWritesNothing ==
    opts.cmd = "pull" /\ opts.dryRun =>
        /\ fs = snap.fs
        /\ dirs = snap.dirs
        /\ git.head = snap.head

\* C13: with backups enabled and outside a dry run, every removal of a
\* destination by install, collect or the sync of pull comes after a backup
\* of that destination made in the same run; a destination whose backup was
\* not made is not removed.
C13_Removed(l, j) == j \in 1..Len(l.steps) /\ l.steps[j] = "remove"

C13_BackupBeforeRemove ==
    opts.backupsEnabled /\ ~opts.dryRun =>
        \A k \in EntryKeys :
            \A j \in 1..Len(log[k].steps) :
                C13_Removed(log[k], j) =>
                    /\ \E i \in 1..(j - 1) : log[k].steps[i] = "backup"
                    /\ \E b \in backups : b.run = run /\ b.key = k

\* C15: status is read-only under every option: it shows no prompt and the
\* entries, directories and backups, and the files of the repository under
\* the repo root, are what they were when the command started.
C15_StatusReadOnly ==
    opts.cmd = "status" =>
        /\ status \in {"idle", "done", "failed"}
        /\ fs = snap.fs
        /\ dirs = snap.dirs
        /\ backups = snap.backups
        /\ git.fetched = snap.fetched
        /\ git.head = snap.head

\* C20: in pull and push a git command (status, add, commit, push, pull,
\* diff summary) that exits non-zero is the last git command of the run: it
\* is not run again, no later step runs, and the command fails with an error
\* that carries the diagnostic output.
C20_Fatal(cmd) == cmd \in {"status", "add", "commit", "push", "pull", "diff"}

C20_GitFailureIsFatal ==
    opts.cmd \in {"pull", "collect"} =>
        \A i \in 1..Len(git.calls) :
            C20_Fatal(git.calls[i]) /\ exitsNonZero(git, git.calls[i]) =>
                /\ i = Len(git.calls)
                /\ status = "failed"
                /\ exitCode = DEFAULT_EXIT_CODE
                /\ error = gitOrThrowMessage(git.calls[i])

\* C21: the entries install returns as kept are entries it skipped on a
\* conflict, leaving the local version in place; when the install of a pull
\* is over, the sync prompt is shown exactly when the run is not a dry run
\* and that list is not empty, and otherwise the pull ends without error.
C21_InstallEnds ==
    /\ opts.cmd = "pull"
    /\ status \in {"pulled", "running", "prompt", "fallback"}
    /\ status' \in {"syncPrompt", "done"}

C21_KeptAreSkipped ==
    \A i \in 1..Len(keptLocals(log)) :
        LET k == keptLocals(log)[i]
        IN  /\ log[k].examined /\ log[k].present /\ ~log[k].linked
            /\ log[k].outcome \in {"skipped", "synced"}
            /\ log[k].outcome = "skipped" => fs[LocalOf(k)] = snap.fs[LocalOf(k)]

C22_OnlyTheAgent ==
    opts.cmd = "collect" /\ opts.agent # "" =>
        \A k \in EntryKeys :
            k[1] # opts.agent =>
                /\ ~log[k].examined
                /\ log[k].outcome \notin {"imported", "would import"}

\* C24: while the conflict prompt of an entry is pending, force is unset and
\* "Show diff" is available exactly when both sides are regular files;
\* showing a diff changes nothing and leaves the same prompt pending; the
\* prompt is left only with the choice replace/import, skip or abort, and
\* an entry is acted upon only after one of these choices.
C24_Pending(k) == status = "prompt" /\ Len(queue) > 0 /\ k = Head(queue)

C24_DiffShown(k) == C24_Pending(k) /\ log'[k].diffs = log[k].diffs + 1

C24_PromptLoop ==
    /\ [](\A k \in EntryKeys :
             /\ C24_Pending(k) =>
                   /\ ~opts.force
                   /\ log[k].prompted
                   /\ log[k].canDiff <=> bothFiles(fs, RepoOf(k), LocalOf(k))
                   /\ log[k].diffs > 0 => log[k].canDiff
             /\ log[k].prompted /\ log[k].outcome \notin {"", "aborted"} =>
                   log[k].answer \in {"replace", "import", "skip"})
    /\ [][\A k \in EntryKeys :
             /\ C24_DiffShown(k) =>
                   /\ log[k].canDiff
                   /\ status' = "prompt"
                   /\ queue' = queue
                   /\ log'[k] = [log[k] EXCEPT !.diffs = @ + 1]
                   /\ UNCHANGED <<fs, dirs, backups, exitCode, error>>
             /\ C24_Pending(k) /\ ~C24_DiffShown(k) /\ log' # log =>
                   log'[k].answer \in {"replace", "import", "skip", "abort"}]_vars

\* C25: outside a dry run a create step of a driver (the link or the copy of
\* install, the dereferencing copy of collect and of the sync of pull) runs
\* only on a destination path where nothing exists: a destination that
\* existed has been removed by an earlier step of the same entry.
C25_Created(k, j) ==
    /\ j \in (Len(log[k].steps) + 1)..Len(log'[k].steps)
    /\ log'[k].steps[j] \in {"copy", "symlink", "copyDeref"}

C25_Dest(k, j) == IF log'[k].steps[j] = "copyDeref" THEN RepoOf(k) ELSE LocalOf(k)

C28_InstallThenStatus ==
    /\ opts.cmd = "status"
    /\ snap.installed
    /\ opts.policy = "repoWins"
    /\ report.made
    => \A k \in EntryKeys :
          agentTypeDir(k[1], k[2]) # NoDir /\ report.entries[k] # "none" =>
              report.entries[k] \in {"ok_symlink", "ok_copy"}

\* C29: install leaves every entry and directory of the repo as it was when
\* the run started, and collect leaves every entry and directory of the
\* local roots as it was.
C29_Same(owners) ==
    /\ \A p \in Paths : p[1] \in owners => fs[p] = snap.fs[p]
    /\ \A d \in AllDirs \cup {RepoMeta} : d[1] \in owners => (d \in dirs <=> d \in snap.dirs)

C29_DirectionFrame ==
    /\ opts.cmd = "install" => C29_Same({"repo"})
    /\ opts.cmd = "collect" => C29_Same({"codex", "claude-code"})

C29_Witness ==
    \/ /\ opts.cmd = "install"
       /\ \E k \in EntryKeys :
             /\ log[k].steps = <<"backup", "remove", "symlink">>
             /\ fs[LocalOf(k)] # snap.fs[LocalOf(k)]
    \/ /\ opts.cmd = "collect"
       /\ \E k \in EntryKeys :
             /\ log[k].steps = <<"backup", "remove", "copyDeref">>
             /\ fs[RepoOf(k)] # snap.fs[RepoOf(k)]

\* The git commands that a step of the run has added to the calls
C26_New == SubSeq(git'.calls, Len(git.calls) + 1, Len(git'.calls))

\* The steps of runPush among them
C26_Steps == SelectSeq(C26_New, LAMBDA c : c \in {"add", "commit", "push"})

C26_Ran(c) == \E i \in 1..Len(C26_Steps) : C26_Steps[i] = c

\* The step of that name exits with a non-zero code when it runs; the
\* commit step covers the porcelain status that precedes the commit
C26_AddFails == git.fails = "add"

C26_CommitFails == git.fails = "status" \/ (git.fails = "commit" /\ git.dirty)

C26_PushFails == git.fails = "push" /\ git.origin

\* C26: in a push command the git steps come after the collect step, in
\* the order add, commit, push; the commit is made iff the tree is dirty
\* after the staging, the push is attempted iff there is an origin, a step
\* that fails keeps every later step from running, and a dry run invokes
\* none of add, commit and push.
C26_PushOrder ==
    [][opts.cmd = "push" /\ status # "done" =>
          /\ status \notin {"collected", "pushPrompt"} => git'.calls = git.calls
          /\ opts.dryRun => git' = git
          /\ status = "collected" /\ opts.dryRun => git' = git /\ status' = "done"
          /\ status = "collected" /\ ~opts.dryRun =>
                /\ fs' = fs /\ log' = log
                /\ C26_Steps \in {<<"add">>, <<"add", "commit">>, <<"add", "push">>,
                                  <<"add", "commit", "push">>}
                /\ C26_Ran("commit") <=> (git.dirty /\ ~C26_AddFails /\ git.fails # "status")
                /\ C26_Ran("push") <=> (git.origin /\ ~C26_AddFails /\ ~C26_CommitFails)
                /\ status' = IF C26_AddFails \/ C26_CommitFails \/ C26_PushFails
                             THEN "failed" ELSE "done"
                /\ status' = "failed" => C26_New[Len(C26_New)] = git.fails
                /\ git'.pushed <=> (git.pushed \/ (C26_Ran("push") /\ status' = "done"))
    ]_vars

C26_Witness ==
    /\ opts.cmd = "push"
    /\ ~opts.dryRun
    /\ status = "done"
    /\ run = 1
    /\ \E k \in EntryKeys : log[k].steps = <<"backup", "remove", "copyDeref">>
    /\ git.calls = <<"add", "status", "commit", "remote", "diff", "push">>
    /\ git.pushed

---------------------------------------------------------------------------
(* The copy of one entry as a tree (sync/fs.ts): the file system holds the
   paths <<root, name, ..., name>> below the roots src (the local entry),
   out (a directory outside every root), nil (nothing) and dst (the repo
   entry); the other variables do not change *)

MaxTreeDepth == 4

\* The names of the children; none of them is in DEFAULT_IGNORE_BASENAMES,
\* whose entries the loop over the children skips
TNames == <<"x", "y">>

RECURSIVE NamesUpTo(_)
NamesUpTo(n) ==
    IF n = 0 THEN {<< >>}
    ELSE NamesUpTo(n - 1) \cup
         {Append(s, TNames[i]) : s \in NamesUpTo(n - 1), i \in 1..Len(TNames)}

\* lstat succeeds
lexists(f, p) == p \in DOMAIN f /\ f[p].kind # "missing"

RECURSIVE copyTree(_, _, _), copyChildren(_, _, _, _), copyTree_keepLinks(_, _, _)

\* A variant that re-creates a link found below the entry, as copyEntry does
copyTree_keepLinks(f, src, dest) ==
    IF dest \notin DOMAIN f THEN [fs |-> f, result |-> "overflow"]
    ELSE IF ~lexists(f, src) THEN [fs |-> f, result |-> "throw"]
    ELSE IF f[src].kind = "symlink"
         THEN IF Len(dest) > 1
              THEN [fs |-> [f EXCEPT ![dest] = Link(f[src].target)], result |-> "ok"]
              ELSE IF realpath(f, src) = NoPath THEN [fs |-> f, result |-> "throw"]
              ELSE copyTree_keepLinks(f, realpath(f, src), dest)
    ELSE IF f[src].kind = "dir"
         THEN copyChildren(src, dest, 1, [fs |-> [f EXCEPT ![dest] = Dir(0)], result |-> "ok"])
    ELSE [fs |-> [f EXCEPT ![dest] = File(f[src].data)], result |-> "ok"]

\* copyEntryDereference on a tree: a link is resolved and its target copied,
\* a directory is created and its children copied in turn, a file is
\* copied; "throw" stands for the error of lstat or realpath, "overflow" for
\* a destination path longer than every path of the file system
copyTree(f, src, dest) ==
    IF dest \notin DOMAIN f THEN [fs |-> f, result |-> "overflow"]
    ELSE IF ~lexists(f, src) THEN [fs |-> f, result |-> "throw"]
    ELSE IF f[src].kind = "symlink"
         THEN IF realpath(f, src) = NoPath THEN [fs |-> f, result |-> "throw"]
              ELSE copyTree(f, realpath(f, src), dest)
    ELSE IF f[src].kind = "dir"
         THEN copyChildren(src, dest, 1, [fs |-> [f EXCEPT ![dest] = Dir(0)], result |-> "ok"])
    ELSE [fs |-> [f EXCEPT ![dest] = File(f[src].data)], result |-> "ok"]

\* The loop over the children of a directory, from the i-th name on
copyChildren(src, dest, i, r) ==
    IF i > Len(TNames) \/ r.result # "ok" THEN r
    ELSE LET child == Append(src, TNames[i])
         IN  copyChildren(src, dest, i + 1,
                          IF lexists(r.fs, child)
                          THEN copyTree(r.fs, child, Append(dest, TNames[i]))
                          ELSE r)

\* The trees of the local entry: a file, a link, or a directory whose
\* children are files, directories and links to the outside directory, to
\* nothing, to a sibling or to the entry itself
TreeFs ==
    LET TreePaths == {<<r>> \o n : r \in {"src", "out", "nil", "dst"},
                                   n \in NamesUpTo(MaxTreeDepth)}
        EmptyTreeFs ==
            [p \in TreePaths |->
                IF p = <<"out">> THEN Dir(0)
                ELSE IF p = <<"out", "x">> THEN File(2)
                ELSE Missing]
        TreeChild == {Missing, File(1), Link(<<"out">>), Link(<<"nil">>),
                      Link(<<"src", "y">>), Link(<<"src">>)}
    IN  {[EmptyTreeFs EXCEPT ![<<"src">>] = e] :
            e \in {File(1), Link(<<"out">>), Link(<<"nil">>)}}
        \cup
        {[EmptyTreeFs EXCEPT ![<<"src">>] = Dir(0), ![<<"src", "x">>] = x,
                             ![<<"src", "y">>] = y] :
            x \in TreeChild, y \in TreeChild \cup {File(2)}}
        \cup
        {[EmptyTreeFs EXCEPT ![<<"src">>] = Dir(0), ![<<"src", "x">>] = Dir(0),
                             ![<<"src", "y">>] = y,
                             ![<<"src", "x", "x">>] = xx, ![<<"src", "x", "y">>] = xy] :
            y \in {Missing, File(2), Link(<<"src", "x">>)},
            xx \in TreeChild \cup {Link(<<"src", "x">>)},
            xy \in {Missing, File(2), Link(<<"src", "x", "x">>)}}

TreeIdle ==
    /\ opts = [cmd |-> "copyEntryDereference"]
    /\ canSymlink = TRUE
    /\ dirs = {}
    /\ backups = {}
    /\ run = 1
    /\ exitCode = 0
    /\ error = ""
    /\ queue = << >>
    /\ log = FreshLog
    /\ prevLog = FreshLog
    /\ git = GitClean

TreeInit ==
    /\ TreeIdle
    /\ fs \in TreeFs
    /\ snap = [fs |-> fs]
    /\ status = "idle"
    /\ report = [result |-> ""]

\* copyEntryDereference(src, dst) is called on the tree
TreeCopy ==
    /\ status = "idle"
    /\ LET r == copyTree(fs, <<"src">>, <<"dst">>)
       IN  /\ fs' = r.fs
           /\ report' = [result |-> r.result]
    /\ status' = "copied"
    /\ UNCHANGED <<opts, canSymlink, dirs, backups, run, exitCode, error, queue, log,
                   prevLog, snap, git>>

TreeSpec == TreeInit /\ [][TreeCopy]_vars

\* Where the path below the entry leads once every link on the way is
\* resolved, NoPath when it leads nowhere
RECURSIVE C23_ResolveBelow(_, _)
C23_ResolveBelow(f, s) ==
    IF Len(s) = 0 THEN realpath(f, <<"src">>)
    ELSE LET parent == C23_ResolveBelow(f, SubSeq(s, 1, Len(s) - 1))
             child == IF parent = NoPath THEN NoPath ELSE Append(parent, s[Len(s)])
         IN  IF parent = NoPath \/ f[parent].kind # "dir" THEN NoPath
             ELSE IF child \notin DOMAIN f THEN NoPath
             ELSE realpath(f, child)

\* C23: once the copy of an entry has succeeded, every path of the
\* destination holds a plain file or directory, and it holds what the path
\* leads to in the source when every link, the entry itself included, is
\* resolved.
C23_DestIsPlain ==
    status = "copied" /\ report.result = "ok" =>
        \A s \in NamesUpTo(MaxTreeDepth) :
            LET d == <<"dst">> \o s
                t == C23_ResolveBelow(snap.fs, s)
            IN  /\ fs[d].kind \in {"missing", "file", "dir"}
                /\ IF t = NoPath THEN fs[d] = Missing
                   ELSE /\ fs[d].kind = snap.fs[t].kind
                        /\ fs[d].kind = "file" => fs[d].data = snap.fs[t].data

C23_Witness ==
    /\ status = "copied"
    /\ report.result = "ok"
    /\ fs[<<"src", "x">>].kind = "dir"
    /\ fs[<<"src", "x", "x">>] = Link(<<"out">>)
    /\ fs[<<"dst", "x", "x">>].kind = "dir"
    /\ fs[<<"dst", "x", "x", "x">>] = File(2)

\* C30: the copy of an entry ends for every finite source tree, also for a
\* tree with a link to one of its own ancestor directories: it does not go
\* on creating ever longer destination paths.
C30_CopyTerminates ==
    status = "copied" => report.result \in {"ok", "throw"}

---------------------------------------------------------------------------
(* The identity of a directory (sync/hash.ts): fs holds two directories,
   left and right, each a function from the relative paths to what the
   path holds; names, file bytes and link targets are sequences of
   characters; the other variables do not change *)

\* The relative paths, in the order of localeCompare
HNames == <<(<<"a">>), (<<"a", "b">>), (<<"b">>)>>

\* The relative paths of the files and links below the directory, sorted
walkDir(t) == SelectSeq(HNames, LAMBDA n : t[n].kind # "missing")

\* SHA-256 of the bytes given to hash.update, taken as injective: the digest
\* is the byte stream itself
RECURSIVE hashUpdates(_, _, _)
hashUpdates(t, files, i) ==
    IF i > Len(files) THEN << >>
    ELSE LET rel == files[i]
         IN  rel
             \o (IF t[rel].kind = "symlink" THEN <<"-", ">">> \o t[rel].target
                 ELSE t[rel].bytes)
             \o <<"\n">>
             \o hashUpdates(t, files, i + 1)

hashDirectory(t) ==
    LET files == walkDir(t)
    IN  [kind |-> "dir", sha256 |-> hashUpdates(t, files, 1), files |-> Len(files)]

\* Each relative path is absent or holds a regular file or a link
HashInit ==
    /\ TreeIdle
    /\ LET HFile(b) == [kind |-> "file", bytes |-> b, target |-> << >>]
           HashNodes ==
               {[kind |-> "missing", bytes |-> << >>, target |-> << >>],
                HFile(<< >>), HFile(<<"b">>), HFile(<<"-", ">", "b">>),
                [kind |-> "symlink", bytes |-> << >>, target |-> <<"b">>]}
           HashTrees == [{HNames[i] : i \in 1..Len(HNames)} -> HashNodes]
       IN  fs \in [left : HashTrees, right : HashTrees]
    /\ snap = [fs |-> fs]
    /\ status = "idle"
    /\ report = [equal |-> FALSE]

\* Both directories are hashed and the identities compared
HashCompare ==
    /\ status = "idle"
    /\ report' = [equal |-> areHashesEqual(hashDirectory(fs.left), hashDirectory(fs.right))]
    /\ status' = "compared"
    /\ UNCHANGED <<fs, opts, canSymlink, dirs, backups, run, exitCode, error, queue, log,
                   prevLog, snap, git>>

HashSpec == HashInit /\ [][HashCompare]_vars

\* C27: two directories with equal identities hold the same relative
\* paths, each of the same kind (link or regular file) and with the same
\* file bytes or link target.
C27_ContentFaithful ==
    status = "compared" /\ report.equal =>
        \A i \in 1..Len(HNames) :
            /\ fs.left[HNames[i]].kind = fs.right[HNames[i]].kind
            /\ fs.left[HNames[i]].bytes = fs.right[HNames[i]].bytes
            /\ fs.left[HNames[i]].target = fs.right[HNames[i]].target

====
